---- MODULE Spec2Model ----
(***************************************************************************)
(* State-machine model of yarr/runners/_env_runner.py (class _EnvRunner):  *)
(* the worker processes started by spin_up_envs / restart_process, the     *)
(* rollout loops _run_train and _run_eval, the checkpoint synchronizer     *)
(* _load_save, the first-checkpoint barrier _unevaluated_weights and       *)
(* kill().  The trainer (global step, replay ratio, checkpoint directory,  *)
(* summary drain), the agent, the environment and the rollout generator    *)
(* are external: they appear as nondeterministic inputs.                   *)
(*                                                                         *)
(* Conventions.  Replay ratios are floats in the source; they are modelled *)
(* in tenths (0.5 is 5).  A checkpoint directory name is the sequence of   *)
(* its decimal digits (<<1,0>> is "10"); int() and str() are ParseInt and  *)
(* Str.  A transition payload is opaque in the source; here it is the      *)
(* record [e, i, k]: serial number of the episode of that worker, index in *)
(* the episode, and whether kill was already set when it was generated.    *)
(* A summary record is [who, n, k]: the process, the index in the batch,   *)
(* and the k of the transition it was made for.                            *)
(***************************************************************************)
EXTENDS Integers, Sequences, FiniteSets, TLC

\* ------------------------------------------------------------------ bounds

\* An episode generator yields at most MaxLen transitions (episode_length).
MaxLen == 2
\* An evaluation process starts at most MaxSweeps sweeps (the outer while
\* loop of _run_eval is unbounded in the source).
MaxSweeps == 1
\* restart_process is called at most MaxRestarts times in a run.
MaxRestarts == 1

\* --------------------------------------------------- constructor parameters

train_episodes == 2
eval_episodes == 2
num_eval_runs == 1
training_iterations == 10
\* previous_loaded_weight_folder = '' (the default): equal to no integer id.
NoFolder == -1
\* target_replay_ratio is None.
NoTarget == -1

\* Values the trainer writes to step_signal and current_replay_ratio (tenths).
Steps == {0, 1}
Ratios == {4, 5, 6}
\* The numbers of records agent.act_summaries() may return.
SummaryCounts == {0, 1}
\* Iteration ids under which the trainer publishes checkpoints, in order.
CheckpointIds == <<5, 10, 15>>
\* The calls of spin_up_envs(name, num_envs, eval) made by the owner.
SpinUpCalls == {[name |-> "train", num_envs |-> 1, eval |-> FALSE],
                [name |-> "eval", num_envs |-> 1, eval |-> TRUE]}
\* The call that starts an evaluation pool of two processes.
EvalPool == [name |-> "eval", num_envs |-> 2, eval |-> TRUE]
\* n = name + str(i): the identities those calls register.
Names ==
    UNION {{<<c.name, i>> : i \in 0..(c.num_envs - 1)} :
              c \in SpinUpCalls \cup {EvalPool}}

\* The constructions considered: weightsdir given or None, the
\* previous_loaded_weight_folder the caller supplies, target_replay_ratio
\* (tenths).
Default == [weightsdir |-> TRUE, folder |-> NoFolder, target |-> 5]
Resumed == [weightsdir |-> TRUE, folder |-> 10, target |-> 5]
Bare == [weightsdir |-> FALSE, folder |-> NoFolder, target |-> NoTarget]
\* The runs considered: a construction, the spin_up_envs calls the owner
\* makes, and how often it calls restart_process.  One pool of one process
\* is followed in every construction (Deployments), and through restarts
\* (RestartDeployments); both pools running side by side are followed in
\* the default construction (PairDeployments).
Deployments ==
    {[config |-> c, calls |-> {call}, restarts |-> 0] :
        c \in {Default, Resumed, Bare}, call \in SpinUpCalls}
RestartDeployments ==
    {[config |-> d.config, calls |-> d.calls, restarts |-> MaxRestarts] :
        d \in Deployments}
PairDeployments == {[config |-> Default, calls |-> SpinUpCalls, restarts |-> 0]}
\* An evaluation pool of two processes on its own (DuoDeployments).
DuoDeployments == {[config |-> Default, calls |-> {EvalPool}, restarts |-> 0]}

\* ------------------------------------------------------------ pure helpers

\* str(n) for 0 <= n < 100, as a digit sequence.
Str(n) == IF n < 10 THEN <<n>> ELSE <<n \div 10, n % 10>>

\* int(s) for a digit sequence s.
RECURSIVE ParseInt(_)
ParseInt(s) ==
    IF s = <<>> THEN 0
    ELSE 10 * ParseInt(SubSeq(s, 1, Len(s) - 1)) + s[Len(s)]

SetMin(S) == CHOOSE x \in S : \A y \in S : x <= y

\* sorted(xs) for a set of distinct integers, as an increasing sequence.
RECURSIVE SortedInts(_)
SortedInts(S) ==
    IF S = {} THEN <<>>
    ELSE <<SetMin(S)>> \o SortedInts(S \ {SetMin(S)})

\* Mutant of SortedFolders: the names are sorted as strings, not as numbers
\* (a one-digit name sorts after every two-digit name starting lower).
RECURSIVE LexSortedInts(_)
LexSortedInts(S) ==
    IF S = {} THEN <<>>
    ELSE LET key(n) == IF n < 10 THEN 10 * n ELSE n
             m == CHOOSE x \in S : \A y \in S : key(x) <= key(y)
         IN <<m>> \o LexSortedInts(S \ {m})
SortedFoldersLex(listing) == LexSortedInts({ParseInt(s) : s \in listing})

\* sorted(map(int, weight_folders)) for a directory listing (a set of names).
SortedFolders(listing) == SortedInts({ParseInt(s) : s \in listing})

\* weight_folders[-1]
Last(seq) == seq[Len(seq)]

\* Mutant of MayProceed: the ratio test is >= instead of >.
MayProceedGeq(eval, target, step, current) ==
    \/ eval
    \/ target = NoTarget
    \/ step <= 0
    \/ current >= target

\* The throttle test of the per-transition loop.
MayProceed(eval, target, step, current) ==
    \/ eval
    \/ target = NoTarget
    \/ step <= 0
    \/ current > target

\* Mutant of Unevaluated: the test against training_iterations is dropped.
UnevaluatedNoFinal(previous, weight_folders) ==
    ~ (previous = Last(weight_folders))

\* Mutant of Unevaluated: the test against the last-loaded id is dropped.
UnevaluatedNoLoaded(previous, weight_folders) ==
    ~ (Last(weight_folders) = training_iterations)

\* The result of _unevaluated_weights once the barrier loop has ended.
Unevaluated(previous, weight_folders) ==
    ~ (previous = Last(weight_folders)
       /\ Last(weight_folders) = training_iterations)

\* run_fn of spin_up_envs: chosen by the eval parameter.
SpinUpFn(eval) == IF eval THEN "eval" ELSE "train"

\* run_fn of restart_process: `eval` there is the builtin function, which is
\* truthy, so the evaluation loop is chosen whatever the recorded arguments.
RestartFn(args) == "eval"

\* ------------------------------------------------------------------- state

VARIABLES
    \* constructor parameters chosen by the caller
    weightsdir_given,        \* FALSE: weightsdir is None
    initial_folder,          \* previous_loaded_weight_folder as constructed
    target_replay_ratio,
    \* shared signals and buffers
    kill_signal,
    num_eval_episodes_signal, eval_report_signal,
    stored_transitions, agent_summaries,
    write_lock, save_load_lock,
    \* the checkpoint root: whether it exists, and its directory names
    weightsdir_exists, weightsdir,
    \* the owner's table: identity -> (name, eval), for registered identities
    p_args,
    \* the calls the owner has yet to make
    to_spin_up, restarts_left,
    \* per process (one per identity)
    pc, run_fn, ep, n_eval, episode_rollout, replay_transition,
    previous_loaded_weight_folder, weights, weight_folders, count_read,
    env, exit,
    \* the values of step_signal and current_replay_ratio a process read in
    \* its last throttle test, until it acts on them
    gate_read,
    \* history of each process, kept for the properties only: the transitions
    \* the generator has yielded in the episode at hand, the serial number of
    \* that episode, the episodes cut short (serial number and transitions
    \* yielded until then), the sweeps started, what the
    \* _load_save call that returned last did (until the next episode starts),
    \* and the last-loaded id at the start of each episode of the sweep at hand
    produced, epno, cut, sweeps, last_sync, swept

config == <<weightsdir_given, initial_folder, target_replay_ratio>>
signals == <<kill_signal>>
evalsig == <<num_eval_episodes_signal, eval_report_signal>>
buffers == <<stored_transitions, agent_summaries>>
locks == <<write_lock, save_load_lock>>
loopvars == <<ep, n_eval>>
episode == <<episode_rollout, replay_transition, produced, gate_read>>
serial == <<epno, cut, swept>>
sync == <<previous_loaded_weight_folder, weights, last_sync>>
owner == <<run_fn, p_args, to_spin_up, restarts_left>>
status == <<env, exit>>
checkpoints == <<weightsdir_exists, weightsdir>>
vars == <<config, signals, evalsig, buffers, locks, checkpoints, pc, loopvars,
          episode, serial, sync, owner, status, weight_folders, count_read,
          sweeps>>

\* A lock nobody holds (a held lock has the holder's identity).
Free == <<>>
\* No throttle test read is pending.
NoRead == [step |-> 0, current |-> 0, made |-> FALSE]
\* The loop variable replay_transition before the first transition.
NoTransition == [e |-> 0, i |-> 0, k |-> FALSE]

\* The eval argument the process of identity w was started with.
EvalArg(w) == p_args[w][2]

InitOf(deployments) ==
    /\ \E d \in deployments :
          /\ weightsdir_given = d.config.weightsdir
          /\ initial_folder = d.config.folder
          /\ target_replay_ratio = d.config.target
          /\ to_spin_up = d.calls
          /\ restarts_left = d.restarts
    /\ kill_signal = FALSE
    /\ num_eval_episodes_signal = 0
    /\ eval_report_signal = FALSE
    /\ stored_transitions = <<>>
    /\ agent_summaries = <<>>
    /\ write_lock = Free
    /\ save_load_lock = Free
    /\ weightsdir_exists = FALSE
    /\ weightsdir = {}
    /\ p_args = [n \in {} |-> <<>>]
    /\ pc = [n \in Names |-> "none"]
    /\ run_fn = [n \in Names |-> "none"]
    /\ ep = [n \in Names |-> 0]
    /\ n_eval = [n \in Names |-> 0]
    /\ episode_rollout = [n \in Names |-> <<>>]
    /\ replay_transition = [n \in Names |-> NoTransition]
    /\ previous_loaded_weight_folder = [n \in Names |-> NoFolder]
    /\ weights = [n \in Names |-> NoFolder]
    /\ weight_folders = [n \in Names |-> <<>>]
    /\ count_read = [n \in Names |-> 0]
    /\ env = [n \in Names |-> "none"]
    /\ gate_read = [n \in Names |-> NoRead]
    /\ exit = [n \in Names |-> "none"]
    /\ produced = [n \in Names |-> <<>>]
    /\ epno = [n \in Names |-> 0]
    /\ cut = [n \in Names |-> {}]
    /\ sweeps = [n \in Names |-> 0]
    /\ last_sync = [n \in Names |-> "none"]
    /\ swept = [n \in Names |-> <<>>]

Init == InitOf(Deployments)
RestartInit == InitOf(RestartDeployments)
PairInit == InitOf(PairDeployments)
DuoInit == InitOf(DuoDeployments)

\* --------------------------------------------------- the owner's operations

\* The local state of a process as Process(...).start() creates it: a copy of
\* the runner as constructed.
Spawn(ns, fn) ==
    /\ pc' = [n \in Names |-> IF n \in ns THEN "start" ELSE pc[n]]
    /\ run_fn' = [n \in Names |-> IF n \in ns THEN fn ELSE run_fn[n]]
    /\ previous_loaded_weight_folder' =
           [n \in Names |-> IF n \in ns THEN initial_folder
                            ELSE previous_loaded_weight_folder[n]]
    /\ weights' = [n \in Names |-> IF n \in ns THEN NoFolder ELSE weights[n]]
    /\ last_sync' = [n \in Names |-> IF n \in ns THEN "none" ELSE last_sync[n]]
    /\ env' = [n \in Names |-> IF n \in ns THEN "none" ELSE env[n]]
    /\ exit' = [n \in Names |-> IF n \in ns THEN "none" ELSE exit[n]]
    /\ sweeps' = [n \in Names |-> IF n \in ns THEN 0 ELSE sweeps[n]]
    /\ ep' = [n \in Names |-> IF n \in ns THEN 0 ELSE ep[n]]
    /\ n_eval' = [n \in Names |-> IF n \in ns THEN 0 ELSE n_eval[n]]
    /\ episode_rollout' = [n \in Names |-> IF n \in ns THEN <<>> ELSE episode_rollout[n]]
    /\ replay_transition' =
           [n \in Names |-> IF n \in ns THEN NoTransition ELSE replay_transition[n]]
    /\ produced' = [n \in Names |-> IF n \in ns THEN <<>> ELSE produced[n]]
    /\ gate_read' = [n \in Names |-> IF n \in ns THEN NoRead ELSE gate_read[n]]
    /\ weight_folders' = [n \in Names |-> IF n \in ns THEN <<>> ELSE weight_folders[n]]
    /\ count_read' = [n \in Names |-> IF n \in ns THEN 0 ELSE count_read[n]]

\* spin_up_envs(name, num_envs, eval)
SpinUpEnvs(c) ==
    LET ns == {<<c.name, i>> : i \in 0..(c.num_envs - 1)} IN
    /\ c \in to_spin_up
    /\ to_spin_up' = to_spin_up \ {c}
    /\ p_args' = [n \in DOMAIN p_args \cup ns |->
                     IF n \in ns THEN <<n, c.eval>> ELSE p_args[n]]
    /\ Spawn(ns, SpinUpFn(c.eval))
    /\ UNCHANGED <<config, signals, evalsig, buffers, locks, checkpoints,
                   serial, restarts_left>>

\* restart_process(name), for a registered identity whose process has exited.
RestartProcess(n) ==
    /\ n \in DOMAIN p_args
    /\ pc[n] = "done"
    /\ restarts_left > 0
    /\ restarts_left' = restarts_left - 1
    /\ Spawn({n}, RestartFn(p_args[n]))
    /\ UNCHANGED <<config, signals, evalsig, buffers, locks, checkpoints,
                   serial, p_args, to_spin_up>>

\* kill()
Kill ==
    /\ kill_signal' = TRUE
    /\ UNCHANGED <<config, evalsig, buffers,
                   locks, checkpoints, pc, loopvars, episode, serial, sync, owner,
                   status,
                   weight_folders, count_read, sweeps>>

\* ------------------------------------------------------------- the trainer

\* The trainer publishes the checkpoints of CheckpointIds in order, each
\* under the name str(id); the first one creates the checkpoint root.
TrainerSave ==
    /\ weightsdir_given
    /\ Cardinality(weightsdir) < Len(CheckpointIds)
    /\ weightsdir_exists' = TRUE
    /\ weightsdir' = weightsdir \cup
           {Str(CheckpointIds[Cardinality(weightsdir) + 1])}
    /\ UNCHANGED <<config, signals, evalsig, buffers, locks, pc, loopvars,
                   episode, serial, sync, owner,
                   status, weight_folders, count_read, sweeps>>

\* The trainer pops every summary, under the write lock.
DrainSummaries ==
    /\ write_lock = Free
    /\ agent_summaries # <<>>
    /\ agent_summaries' = <<>>
    /\ UNCHANGED <<config, signals, evalsig, stored_transitions, locks,
                   checkpoints, pc, loopvars, episode, serial, sync, owner,
                   status,
                   weight_folders, count_read, sweeps>>

\* ------------------------------------------------------ a worker process

\* The process of identity w ends: by return (how = "normal" or "kill") or
\* by an exception leaving the run function (how = "error").  shutdown tells
\* whether env.shutdown() was called on that path.  Its memory is gone.
Terminate(w, how, shutdown) ==
    /\ pc' = [pc EXCEPT ![w] = "done"]
    /\ exit' = [exit EXCEPT ![w] = how]
    /\ env' = [env EXCEPT ![w] = IF shutdown THEN "shutdown" ELSE @]
    /\ ep' = [ep EXCEPT ![w] = 0]
    /\ n_eval' = [n_eval EXCEPT ![w] = 0]
    /\ episode_rollout' = [episode_rollout EXCEPT ![w] = <<>>]
    /\ replay_transition' = [replay_transition EXCEPT ![w] = NoTransition]
    /\ produced' = [produced EXCEPT ![w] = <<>>]
    /\ gate_read' = [gate_read EXCEPT ![w] = NoRead]
    /\ previous_loaded_weight_folder' =
           [previous_loaded_weight_folder EXCEPT ![w] = NoFolder]
    /\ weights' = [weights EXCEPT ![w] = NoFolder]
    /\ last_sync' = [last_sync EXCEPT ![w] = "none"]
    /\ weight_folders' = [weight_folders EXCEPT ![w] = <<>>]
    /\ count_read' = [count_read EXCEPT ![w] = 0]
    /\ sweeps' = [sweeps EXCEPT ![w] = 0]

\* Lines 136-150 and 195-209: copy and build the agent, launch the env.
Launch(w) ==
    /\ pc[w] = "start"
    /\ env' = [env EXCEPT ![w] = "launched"]
    /\ pc' = [pc EXCEPT ![w] = IF run_fn[w] = "train" THEN "train_for"
                                ELSE "uneval_list"]
    /\ UNCHANGED <<config, signals, evalsig, buffers, locks, checkpoints,
                   loopvars, episode, serial, sync, owner, exit,
                   weight_folders, count_read, sweeps>>

\* Mutant of TrainFor: the loop runs one iteration more.
TrainForOneMore(w) ==
    /\ pc[w] = "train_for"
    /\ IF ep[w] <= train_episodes
       THEN /\ pc' = [pc EXCEPT ![w] = "load_save"]
            /\ UNCHANGED <<loopvars, episode, sync, status, weight_folders,
                           count_read, sweeps>>
       ELSE Terminate(w, "normal", TRUE)
    /\ UNCHANGED <<config, signals, evalsig, buffers, locks, checkpoints,
                   serial, owner>>

\* Line 151: the next iteration of `for ep in range(train_episodes)`, or,
\* after the last one, line 191.
TrainFor(w) ==
    /\ pc[w] = "train_for"
    /\ IF ep[w] < train_episodes
       THEN /\ pc' = [pc EXCEPT ![w] = "load_save"]
            /\ UNCHANGED <<loopvars, episode, sync, status, weight_folders,
                           count_read, sweeps>>
       ELSE Terminate(w, "normal", TRUE)
    /\ UNCHANGED <<config, signals, evalsig, buffers, locks, checkpoints,
                   serial, owner>>

\* Where _load_save returns to: line 153 in _run_train, line 213 in _run_eval.
AfterLoadSave(w) == IF run_fn[w] = "train" THEN "new_episode" ELSE "eval_runs"

\* Lines 103-106: _load_save returns at once when weightsdir is None.
LoadSaveStart(w) ==
    /\ pc[w] = "load_save"
    /\ pc' = [pc EXCEPT ![w] = IF weightsdir_given THEN "ls_lock"
                                ELSE AfterLoadSave(w)]
    /\ UNCHANGED <<config, signals, evalsig, buffers, locks, checkpoints,
                   loopvars, episode, serial, sync, owner, status,
                   weight_folders, count_read, sweeps>>

\* Line 108: with self._save_load_lock
LoadSaveAcquire(w) ==
    /\ pc[w] = "ls_lock"
    /\ save_load_lock = Free
    /\ save_load_lock' = w
    /\ pc' = [pc EXCEPT ![w] = "ls_locked"]
    /\ UNCHANGED <<config, signals, evalsig, buffers, write_lock, checkpoints,
                   loopvars, episode, serial, sync, owner, status,
                   weight_folders, count_read, sweeps>>

\* The outcomes of agent.load_weights(d): FileNotFoundError when d is not
\* there, and also when it is there but not completely written.
LoadOutcomes(d) == IF d \in weightsdir THEN {"ok", "notfound"} ELSE {"notfound"}

\* Mutant of LoadSaveSleep: the sleep of lines 126-127 is taken inside the
\* `with` block, the lock still held.
LoadSaveSleepLocked(w) ==
    /\ pc[w] = "ls_sleep"
    /\ save_load_lock = Free
    /\ save_load_lock' = w
    /\ pc' = [pc EXCEPT ![w] = "ls_sleep"]
    /\ UNCHANGED <<config, signals, evalsig, buffers, write_lock, checkpoints,
                   loopvars, episode, serial, sync, owner, status,
                   weight_folders, count_read, sweeps>>

\* Lines 109-125, under the lock: list, sort, compare, first load attempt.
LoadSaveList(w) ==
    /\ pc[w] = "ls_locked"
    /\ LET listing == IF weightsdir_exists THEN weightsdir ELSE {}
           folders == SortedFolders(listing)
       IN IF Len(folders) > 0
          THEN IF previous_loaded_weight_folder[w] # Last(folders)
               THEN /\ previous_loaded_weight_folder' =
                           [previous_loaded_weight_folder EXCEPT ![w] = Last(folders)]
                    /\ \E o \in LoadOutcomes(Str(Last(folders))) :
                          IF o = "ok"
                          THEN /\ weights' = [weights EXCEPT ![w] = Last(folders)]
                               /\ last_sync' = [last_sync EXCEPT ![w] = "loaded"]
                               /\ save_load_lock' = Free
                               /\ pc' = [pc EXCEPT ![w] = AfterLoadSave(w)]
                          ELSE /\ pc' = [pc EXCEPT ![w] = "ls_retry"]
                               /\ UNCHANGED <<weights, last_sync, save_load_lock>>
               ELSE /\ last_sync' = [last_sync EXCEPT ![w] = "kept"]
                    /\ save_load_lock' = Free
                    /\ pc' = [pc EXCEPT ![w] = AfterLoadSave(w)]
                    /\ UNCHANGED <<previous_loaded_weight_folder, weights>>
          ELSE /\ save_load_lock' = Free
               /\ pc' = [pc EXCEPT ![w] = "ls_sleep"]
               /\ UNCHANGED sync
    /\ UNCHANGED <<config, signals, evalsig, buffers, write_lock, checkpoints,
                   loopvars, episode, serial, owner, status, weight_folders,
                   count_read, sweeps>>

\* Mutant of LoadSaveRetry: a second FileNotFoundError is swallowed and
\* _load_save returns as if the load had been made.
LoadSaveRetrySwallowed(w) ==
    /\ pc[w] = "ls_retry"
    /\ save_load_lock' = Free
    /\ \E o \in LoadOutcomes(Str(previous_loaded_weight_folder[w])) :
          /\ weights' = [weights EXCEPT ![w] =
                 IF o = "ok" THEN previous_loaded_weight_folder[w] ELSE @]
          /\ last_sync' = [last_sync EXCEPT ![w] = "loaded"]
          /\ pc' = [pc EXCEPT ![w] = AfterLoadSave(w)]
    /\ UNCHANGED <<config, signals, evalsig, buffers, write_lock, checkpoints,
                   serial, owner, previous_loaded_weight_folder, loopvars,
                   episode, status, weight_folders, count_read, sweeps>>

\* Lines 119-122, still under the lock: sleep, second load attempt.  A second
\* FileNotFoundError leaves _load_save and the run function (no handler).
LoadSaveRetry(w) ==
    /\ pc[w] = "ls_retry"
    /\ save_load_lock' = Free
    /\ \E o \in LoadOutcomes(Str(previous_loaded_weight_folder[w])) :
          IF o = "ok"
          THEN /\ weights' = [weights EXCEPT ![w] = previous_loaded_weight_folder[w]]
               /\ last_sync' = [last_sync EXCEPT ![w] = "loaded"]
               /\ pc' = [pc EXCEPT ![w] = AfterLoadSave(w)]
               /\ UNCHANGED <<previous_loaded_weight_folder, loopvars, episode,
                              status, weight_folders, count_read, sweeps>>
          ELSE Terminate(w, "error", FALSE)
    /\ UNCHANGED <<config, signals, evalsig, buffers, write_lock, checkpoints,
                   serial, owner>>

\* Lines 126-127: nothing to load yet; sleep, then the whole cycle again.
LoadSaveSleep(w) ==
    /\ pc[w] = "ls_sleep"
    /\ pc' = [pc EXCEPT ![w] = "ls_lock"]
    /\ UNCHANGED <<config, signals, evalsig, buffers, locks, checkpoints,
                   loopvars, episode, serial, sync, owner, status,
                   weight_folders, count_read, sweeps>>

\* Lines 155-158 and 218-222: a fresh episode buffer and a fresh generator.
NewEpisode(w) ==
    /\ pc[w] = "new_episode"
    /\ episode_rollout' = [episode_rollout EXCEPT ![w] = <<>>]
    /\ produced' = [produced EXCEPT ![w] = <<>>]
    /\ epno' = [epno EXCEPT ![w] = @ + 1]
    /\ swept' = [swept EXCEPT ![w] =
           IF run_fn[w] = "eval"
           THEN Append(@, previous_loaded_weight_folder[w]) ELSE @]
    /\ last_sync' = [last_sync EXCEPT ![w] = "none"]
    /\ pc' = [pc EXCEPT ![w] = "next"]
    /\ UNCHANGED <<config, signals, evalsig, buffers, locks, checkpoints,
                   loopvars, replay_transition, gate_read, cut,
                   previous_loaded_weight_folder, weights, owner, status,
                   weight_folders, count_read, sweeps>>

\* Lines 160 and 224: the generator yields one more transition.
GeneratorYield(w) ==
    /\ pc[w] = "next"
    /\ Len(produced[w]) < MaxLen
    /\ LET t == [e |-> epno[w], i |-> Len(produced[w]) + 1, k |-> kill_signal]
       IN /\ replay_transition' = [replay_transition EXCEPT ![w] = t]
          /\ produced' = [produced EXCEPT ![w] = Append(@, t)]
    /\ pc' = [pc EXCEPT ![w] = "kill_check"]
    /\ UNCHANGED <<config, signals, evalsig, buffers, locks, checkpoints,
                   loopvars, episode_rollout, gate_read, serial, sync, owner,
                   status, weight_folders, count_read, sweeps>>

\* Lines 160 and 224: the generator is exhausted, the for loop ends and
\* control reaches the flush of lines 188 and 252.
GeneratorExhausted(w) ==
    /\ pc[w] = "next"
    /\ pc' = [pc EXCEPT ![w] = "flush"]
    /\ UNCHANGED <<config, signals, evalsig, buffers, locks, checkpoints,
                   loopvars, episode, serial, sync, owner, status,
                   weight_folders, count_read, sweeps>>

\* Mutant of SoftSignal: the handler shuts the environment down before it
\* continues.
SoftSignalShutdown(w) ==
    /\ pc[w] = "next"
    /\ ep' = [ep EXCEPT ![w] = @ + 1]
    /\ env' = [env EXCEPT ![w] = "shutdown"]
    /\ pc' = [pc EXCEPT ![w] = IF run_fn[w] = "train" THEN "train_for"
                                ELSE "eval_eps"]
    /\ UNCHANGED <<config, signals, evalsig, buffers, locks, checkpoints,
                   n_eval, episode, serial, sync, owner, exit,
                   weight_folders, count_read, sweeps>>

\* Lines 182-183 and 246-247: a StopIteration reaches the handler, which
\* continues the enclosing `for ep` loop: the rest of the loop body (the
\* flush and, in _run_eval, the episode count) is skipped.
SoftSignal(w) ==
    /\ pc[w] = "next"
    /\ ep' = [ep EXCEPT ![w] = @ + 1]
    /\ pc' = [pc EXCEPT ![w] = IF run_fn[w] = "train" THEN "train_for"
                                ELSE "eval_eps"]
    /\ UNCHANGED <<config, signals, evalsig, buffers, locks, checkpoints,
                   n_eval, episode, serial, sync, owner, status,
                   weight_folders, count_read, sweeps>>

\* Lines 184-186 and 248-250: any other exception: env.shutdown(), re-raise.
FatalError(w) ==
    /\ pc[w] = "next"
    /\ cut' = [cut EXCEPT ![w] = @ \cup {<<epno[w], Len(produced[w])>>}]
    /\ Terminate(w, "error", TRUE)
    /\ UNCHANGED <<config, signals, evalsig, buffers, locks, checkpoints,
                   epno, swept, owner>>

\* The entries of lines 190 and 254 for an episode buffer.
Tagged(name, rollout, eval) ==
    [j \in 1..Len(rollout) |-> <<name, rollout[j], eval>>]

\* Mutant of KillCheck: on kill, what the episode buffer holds is flushed
\* before the process ends.
KillCheckFlushing(w) ==
    /\ pc[w] = "kill_check"
    /\ IF kill_signal
       THEN /\ cut' = [cut EXCEPT ![w] = @ \cup {<<epno[w], Len(produced[w])>>}]
            /\ stored_transitions' = stored_transitions \o
                   Tagged(p_args[w][1], episode_rollout[w], EvalArg(w))
            /\ Terminate(w, "kill", TRUE)
       ELSE /\ pc' = [pc EXCEPT ![w] = "gate"]
            /\ UNCHANGED <<loopvars, episode, cut, sync, status,
                           weight_folders, count_read, sweeps,
                           stored_transitions>>
    /\ UNCHANGED <<config, signals, evalsig, agent_summaries, locks,
                   checkpoints, epno, swept, owner>>

\* Mutant of KillCheck: the kill signal is not looked at.
KillCheckSkipped(w) ==
    /\ pc[w] = "kill_check"
    /\ pc' = [pc EXCEPT ![w] = "gate"]
    /\ UNCHANGED <<config, signals, evalsig, buffers, locks, checkpoints,
                   loopvars, episode, serial, sync, owner, status,
                   weight_folders, count_read, sweeps>>

\* Lines 162-164 and 226-228: on kill, env.shutdown() and return.
KillCheck(w) ==
    /\ pc[w] = "kill_check"
    /\ IF kill_signal
       THEN /\ cut' = [cut EXCEPT ![w] = @ \cup {<<epno[w], Len(produced[w])>>}]
            /\ Terminate(w, "kill", TRUE)
       ELSE /\ pc' = [pc EXCEPT ![w] = "gate"]
            /\ UNCHANGED <<loopvars, episode, cut, sync, status,
                           weight_folders, count_read, sweeps>>
    /\ UNCHANGED <<config, signals, evalsig, buffers, locks, checkpoints,
                   epno, swept, owner>>

\* What one evaluation of the throttle test reads, the `or` being
\* short-circuit: nothing for an eval process or without a target, else
\* step_signal, and current_replay_ratio only when the step is above zero.
\* The trainer writes both at any time, so a read may find any value.
GateReads(eval, target) ==
    IF eval \/ target = NoTarget THEN {NoRead}
    ELSE {[step |-> st, current |-> 0, made |-> TRUE] : st \in {x \in Steps : x <= 0}}
         \cup {[step |-> st, current |-> c, made |-> TRUE] :
                  st \in {x \in Steps : x > 0}, c \in Ratios}

\* Lines 165-169 and 229-233: the throttle test; break, or go to sleep.
ThrottleGate(w) ==
    /\ pc[w] = "gate"
    /\ \E r \in GateReads(EvalArg(w), target_replay_ratio) :
          /\ gate_read' = [gate_read EXCEPT ![w] = r]
          /\ pc' = [pc EXCEPT ![w] =
                 IF MayProceed(EvalArg(w), target_replay_ratio, r.step, r.current)
                 THEN "summary" ELSE "throttle_sleep"]
    /\ UNCHANGED <<config, signals, evalsig, buffers, locks, checkpoints,
                   loopvars, episode_rollout, replay_transition, produced,
                   serial, sync, owner, status, weight_folders, count_read,
                   sweeps>>

\* Mutant of ThrottleSleep: after the sleep only the throttle test is
\* repeated, not the kill check.
ThrottleSleepNoKillCheck(w) ==
    /\ pc[w] = "throttle_sleep"
    /\ gate_read' = [gate_read EXCEPT ![w] = NoRead]
    /\ pc' = [pc EXCEPT ![w] = "gate"]
    /\ UNCHANGED <<config, signals, evalsig, buffers, locks, checkpoints,
                   loopvars, episode_rollout, replay_transition, produced,
                   serial, sync, owner, status, weight_folders, count_read,
                   sweeps>>

\* Lines 170-173 and 234-237: sleep, then the inner while loop again.
ThrottleSleep(w) ==
    /\ pc[w] = "throttle_sleep"
    /\ gate_read' = [gate_read EXCEPT ![w] = NoRead]
    /\ pc' = [pc EXCEPT ![w] = "kill_check"]
    /\ UNCHANGED <<config, signals, evalsig, buffers, locks, checkpoints,
                   loopvars, episode_rollout, replay_transition, produced,
                   serial, sync, owner, status, weight_folders, count_read,
                   sweeps>>

\* Lines 175 and 239: with self.write_lock
SummaryAcquire(w) ==
    /\ pc[w] = "summary"
    /\ write_lock = Free
    /\ write_lock' = w
    /\ gate_read' = [gate_read EXCEPT ![w] = NoRead]
    /\ pc' = [pc EXCEPT ![w] = "summary_locked"]
    /\ UNCHANGED <<config, signals, evalsig, buffers, save_load_lock,
                   checkpoints, loopvars, episode_rollout, replay_transition,
                   produced, serial, sync, owner, status, weight_folders,
                   count_read, sweeps>>

\* What agent.act_summaries() may return for the transition at hand.
ActSummaries(w) ==
    {[j \in 1..n |-> [who |-> w, n |-> j, k |-> replay_transition[w].k]] :
        n \in SummaryCounts}

\* Mutant of SummaryStore: the summaries are stored whether or not the
\* mailbox is empty.
SummaryStoreUnchecked(w) ==
    /\ pc[w] = "summary_locked"
    /\ \E ss \in ActSummaries(w) : agent_summaries' = agent_summaries \o ss
    /\ write_lock' = Free
    /\ episode_rollout' = [episode_rollout EXCEPT ![w] = Append(@, replay_transition[w])]
    /\ pc' = [pc EXCEPT ![w] = "next"]
    /\ UNCHANGED <<config, signals, evalsig, stored_transitions, save_load_lock,
                   checkpoints, loopvars, replay_transition, produced,
                   gate_read, serial, sync, owner, status, weight_folders,
                   count_read, sweeps>>

\* Lines 176-181 and 240-245: store the summaries if the mailbox is empty,
\* leave the lock, append the transition to the episode buffer.
SummaryStore(w) ==
    /\ pc[w] = "summary_locked"
    /\ IF Len(agent_summaries) = 0
       THEN \E ss \in ActSummaries(w) : agent_summaries' = agent_summaries \o ss
       ELSE agent_summaries' = agent_summaries
    /\ write_lock' = Free
    /\ episode_rollout' = [episode_rollout EXCEPT ![w] = Append(@, replay_transition[w])]
    /\ pc' = [pc EXCEPT ![w] = "next"]
    /\ UNCHANGED <<config, signals, evalsig, stored_transitions, save_load_lock,
                   checkpoints, loopvars, replay_transition, produced,
                   gate_read, serial, sync, owner, status, weight_folders,
                   count_read, sweeps>>

\* Lines 188 and 252: with self.write_lock
FlushAcquire(w) ==
    /\ pc[w] = "flush"
    /\ write_lock = Free
    /\ write_lock' = w
    /\ pc' = [pc EXCEPT ![w] = "flush_locked"]
    /\ UNCHANGED <<config, signals, evalsig, buffers, save_load_lock,
                   checkpoints, loopvars, episode, serial, sync, owner, status,
                   weight_folders, count_read, sweeps>>

\* Mutant of Flush: the lock is left after every single append, so that
\* other writers get in between the entries of an episode.
FlushPiecewise(w) ==
    /\ pc[w] = "flush_locked"
    /\ write_lock' = Free
    /\ IF Len(episode_rollout[w]) > 1
       THEN /\ stored_transitions' = stored_transitions \o
                   Tagged(p_args[w][1], <<Head(episode_rollout[w])>>, EvalArg(w))
            /\ episode_rollout' = [episode_rollout EXCEPT ![w] = Tail(@)]
            /\ pc' = [pc EXCEPT ![w] = "flush"]
            /\ ep' = ep
       ELSE /\ stored_transitions' = stored_transitions \o
                   Tagged(p_args[w][1], episode_rollout[w], EvalArg(w))
            /\ episode_rollout' = episode_rollout
            /\ IF run_fn[w] = "train"
               THEN /\ ep' = [ep EXCEPT ![w] = @ + 1]
                    /\ pc' = [pc EXCEPT ![w] = "train_for"]
               ELSE /\ ep' = ep
                    /\ pc' = [pc EXCEPT ![w] = "count_read"]
    /\ UNCHANGED <<config, signals, evalsig, agent_summaries, save_load_lock,
                   checkpoints, n_eval, replay_transition, produced, gate_read,
                   serial, sync, owner, status, weight_folders, count_read,
                   sweeps>>

\* Lines 189-190 and 253-254: append the episode, leave the lock.  In
\* _run_train the next iteration of the episode loop follows, in _run_eval
\* line 256.
Flush(w) ==
    /\ pc[w] = "flush_locked"
    /\ stored_transitions' = stored_transitions \o
           Tagged(p_args[w][1], episode_rollout[w], EvalArg(w))
    /\ write_lock' = Free
    /\ IF run_fn[w] = "train"
       THEN /\ ep' = [ep EXCEPT ![w] = @ + 1]
            /\ pc' = [pc EXCEPT ![w] = "train_for"]
       ELSE /\ ep' = ep
            /\ pc' = [pc EXCEPT ![w] = "count_read"]
    /\ UNCHANGED <<config, signals, evalsig, agent_summaries, save_load_lock,
                   checkpoints, n_eval, episode, serial, sync, owner, status,
                   weight_folders, count_read, sweeps>>

\* Line 256: num_eval_episodes_signal.value += 1 reads the shared value ...
CountRead(w) ==
    /\ pc[w] = "count_read"
    /\ count_read' = [count_read EXCEPT ![w] = num_eval_episodes_signal]
    /\ pc' = [pc EXCEPT ![w] = "count_write"]
    /\ UNCHANGED <<config, signals, evalsig, buffers, locks, checkpoints,
                   loopvars, episode, serial, sync, owner, status,
                   weight_folders, sweeps>>

\* ... and writes it back plus one; the next iteration of `for ep` follows.
CountWrite(w) ==
    /\ pc[w] = "count_write"
    /\ num_eval_episodes_signal' = count_read[w] + 1
    /\ ep' = [ep EXCEPT ![w] = @ + 1]
    /\ pc' = [pc EXCEPT ![w] = "eval_eps"]
    /\ UNCHANGED <<config, signals, eval_report_signal, buffers, locks,
                   checkpoints, n_eval, episode, serial, sync, owner, status,
                   weight_folders, count_read, sweeps>>

\* Line 264: os.listdir(self._weightsdir).  A missing root raises
\* FileNotFoundError, which leaves the run function (no handler, no
\* env.shutdown()).  With weightsdir None the current directory is listed:
\* either it holds nothing, or some name is no integer and int() raises.
UnevalList(w) ==
    /\ pc[w] = "uneval_list"
    /\ \/ /\ weightsdir_given /\ weightsdir_exists
          /\ weight_folders' = [weight_folders EXCEPT ![w] = SortedFolders(weightsdir)]
          /\ pc' = [pc EXCEPT ![w] = "uneval_sleep"]
          /\ UNCHANGED <<loopvars, episode, sync, status, count_read, sweeps>>
       \/ /\ ~ weightsdir_given
          /\ weight_folders' = [weight_folders EXCEPT ![w] = <<>>]
          /\ pc' = [pc EXCEPT ![w] = "uneval_sleep"]
          /\ UNCHANGED <<loopvars, episode, sync, status, count_read, sweeps>>
       \/ /\ ~ (weightsdir_given /\ weightsdir_exists)
          /\ Terminate(w, "error", FALSE)
    /\ UNCHANGED <<config, signals, evalsig, buffers, locks, checkpoints,
                   serial, owner>>

\* Lines 263 and 267-268: sleep, then test the loop condition on the listing
\* taken before the sleep.
UnevalSleep(w) ==
    /\ pc[w] = "uneval_sleep"
    /\ pc' = [pc EXCEPT ![w] = IF ~ (Len(weight_folders[w]) > 1)
                                THEN "uneval_list" ELSE "uneval_compare"]
    /\ UNCHANGED <<config, signals, evalsig, buffers, locks, checkpoints,
                   loopvars, episode, serial, sync, owner, status,
                   weight_folders, count_read, sweeps>>

\* Lines 270-273 with lines 211 and 258: the while test of _run_eval.  On
\* False the loop ends: env.shutdown() and return.
UnevalCompare(w) ==
    /\ pc[w] = "uneval_compare"
    /\ IF Unevaluated(previous_loaded_weight_folder[w], weight_folders[w])
       THEN /\ pc' = [pc EXCEPT ![w] = "eval_sync"]
            /\ weight_folders' = [weight_folders EXCEPT ![w] = <<>>]
            /\ UNCHANGED <<loopvars, episode, sync, status, count_read, sweeps>>
       ELSE Terminate(w, "normal", TRUE)
    /\ UNCHANGED <<config, signals, evalsig, buffers, locks, checkpoints,
                   serial, owner>>

\* Line 212: one more sweep starts with _load_save().
EvalSync(w) ==
    /\ pc[w] = "eval_sync"
    /\ sweeps[w] < MaxSweeps
    /\ sweeps' = [sweeps EXCEPT ![w] = @ + 1]
    /\ n_eval' = [n_eval EXCEPT ![w] = 0]
    /\ swept' = [swept EXCEPT ![w] = <<>>]
    /\ pc' = [pc EXCEPT ![w] = "load_save"]
    /\ UNCHANGED <<config, signals, evalsig, buffers, locks, checkpoints, ep,
                   episode, epno, cut, sync, owner, status, weight_folders,
                   count_read>>

\* Mutant of EvalRuns: the report flag is set at the start of every run of
\* the sweep as well.
EvalRunsFlagEarly(w) ==
    /\ pc[w] = "eval_runs"
    /\ eval_report_signal' = TRUE
    /\ IF n_eval[w] < num_eval_runs
       THEN /\ ep' = [ep EXCEPT ![w] = 0]
            /\ pc' = [pc EXCEPT ![w] = "eval_eps"]
       ELSE /\ pc' = [pc EXCEPT ![w] = "uneval_list"]
            /\ UNCHANGED ep
    /\ UNCHANGED <<config, signals, num_eval_episodes_signal, buffers, locks,
                   checkpoints, n_eval, episode, serial, sync, owner, status,
                   weight_folders, count_read, sweeps>>

\* Line 213: the next iteration of `for n_eval in range(num_eval_runs)`, or,
\* after the last one, line 257 and the while test again.
EvalRuns(w) ==
    /\ pc[w] = "eval_runs"
    /\ IF n_eval[w] < num_eval_runs
       THEN /\ ep' = [ep EXCEPT ![w] = 0]
            /\ pc' = [pc EXCEPT ![w] = "eval_eps"]
            /\ UNCHANGED eval_report_signal
       ELSE /\ eval_report_signal' = TRUE
            /\ pc' = [pc EXCEPT ![w] = "uneval_list"]
            /\ UNCHANGED ep
    /\ UNCHANGED <<config, signals, num_eval_episodes_signal, buffers, locks,
                   checkpoints, n_eval, episode, serial, sync, owner, status,
                   weight_folders, count_read, sweeps>>

\* Line 214: the next iteration of `for ep in range(eval_episodes)`, or the
\* end of this run.
EvalEpisodes(w) ==
    /\ pc[w] = "eval_eps"
    /\ IF ep[w] < eval_episodes
       THEN /\ pc' = [pc EXCEPT ![w] = "new_episode"]
            /\ UNCHANGED n_eval
       ELSE /\ n_eval' = [n_eval EXCEPT ![w] = @ + 1]
            /\ pc' = [pc EXCEPT ![w] = "eval_runs"]
    /\ UNCHANGED <<config, signals, evalsig, buffers, locks, checkpoints, ep,
                   episode, serial, sync, owner, status, weight_folders,
                   count_read, sweeps>>

\* ------------------------------------------------------- the specification

\* One step of a process started with eval = True whose generator ends its
\* episodes by exhaustion only.
EvalPoolWorker(w) ==
    \/ Launch(w)
    \/ LoadSaveStart(w)
    \/ LoadSaveAcquire(w)
    \/ LoadSaveList(w)
    \/ LoadSaveRetry(w)
    \/ NewEpisode(w)
    \/ GeneratorYield(w)
    \/ GeneratorExhausted(w)
    \/ KillCheck(w)
    \/ ThrottleGate(w)
    \/ SummaryAcquire(w)
    \/ SummaryStore(w)
    \/ FlushAcquire(w)
    \/ Flush(w)
    \/ CountRead(w)
    \/ CountWrite(w)
    \/ UnevalList(w)
    \/ UnevalSleep(w)
    \/ UnevalCompare(w)
    \/ EvalSync(w)
    \/ EvalRuns(w)
    \/ EvalEpisodes(w)

\* One step of the process of identity w.
Worker(w) ==
    \/ TrainFor(w)
    \/ LoadSaveSleep(w)
    \/ ThrottleSleep(w)
    \/ SoftSignal(w)
    \/ FatalError(w)
    \/ EvalPoolWorker(w)

Next ==
    \/ \E c \in SpinUpCalls : SpinUpEnvs(c)
    \/ Kill
    \/ TrainerSave
    \/ DrainSummaries
    \/ \E w \in Names : Worker(w)

Spec == Init /\ [][Next]_vars

\* The same, the owner restarting processes that have ended.
RestartNext ==
    \/ Next
    \/ \E n \in Names : RestartProcess(n)

RestartSpec == RestartInit /\ [][RestartNext]_vars

\* The scheduler runs every process that can take a step; the owner and the
\* trainer are under no obligation.
FairSpec == Spec /\ \A w \in Names : WF_vars(Worker(w))

\* The throttle test of the process of identity w lets it pass.
GateOpens(w) == ThrottleGate(w) /\ pc'[w] = "summary"

\* As FairSpec, and the trainer goes on publishing checkpoints and moves
\* the replay ratio so that a throttle test that is repeated passes in the
\* end.
LiveSpec ==
    /\ FairSpec
    /\ WF_vars(TrainerSave)
    /\ \A w \in Names : SF_vars(GateOpens(w))

\* Both pools side by side.
PairSpec == PairInit /\ [][Next]_vars

\* An evaluation pool of two processes: the owner starts it, the trainer
\* publishes checkpoints, nobody calls kill().
DuoNext ==
    \/ SpinUpEnvs(EvalPool)
    \/ TrainerSave
    \/ \E w \in Names : EvalPoolWorker(w)

DuoSpec == DuoInit /\ [][DuoNext]_vars

\* ------------------------------------------------------------- properties

SetMax(S) == CHOOSE x \in S : \A y \in S : x >= y
Range(seq) == {seq[j] : j \in 1..Len(seq)}

\* The process of identity w is inside an episode: between the creation of
\* the generator and the end of the flush.
InEpisode(w) ==
    pc[w] \in {"next", "kill_check", "gate", "throttle_sleep", "summary",
               "summary_locked", "flush", "flush_locked"}

\* A step in which an episode of w runs to its end: the soft signal ends it,
\* or the flush that follows the exhausted generator completes.
EpisodeRunsToEnd(w) ==
    \/ pc[w] = "next" /\ pc'[w] \in {"train_for", "eval_eps"}
    \/ pc[w] = "flush_locked" /\ pc'[w] \in {"train_for", "count_read"}

\* C1: when an episode runs to its end without kill and without a fatal
\* error, the soft episode-complete signal included, what the worker has
\* appended to the shared transition buffer for it is exactly what the
\* generator yielded in it, in order, each entry tagged (name, transition,
\* eval flag of the worker).
C1_EpisodeFlushedExactly ==
    [][\A w \in Names :
          EpisodeRunsToEnd(w) =>
              stored_transitions' = stored_transitions \o
                  [j \in 1..Len(produced[w]) |->
                      <<w, produced[w][j], p_args[w][2]>>]]_vars

\* C2: the shared transition buffer holds nothing of an episode that was cut
\* short by kill or by a fatal error, and nothing of an episode that is
\* still running.
C2_NoPartialEpisode ==
    \A j \in 1..Len(stored_transitions) :
        LET w == stored_transitions[j][1]
            e == stored_transitions[j][2].e
        IN /\ \A c \in cut[w] : c[1] # e
           /\ InEpisode(w) => e # epno[w]

\* C2 witness: an episode was cut short after the generator had yielded a
\* transition, while an earlier episode of the same worker is in the buffer.
C2_Witness ==
    \E w \in Names :
        /\ \E c \in cut[w] : c[2] >= 1
        /\ \E j \in 1..Len(stored_transitions) : stored_transitions[j][1] = w

\* The process of identity w has ended, or was never started.
Gone(w) == pc[w] \in {"none", "done"}

\* The process of identity w stands where the model stops following it: at
\* the start of a sweep beyond MaxSweeps.
Unfollowed(w) == pc[w] = "eval_sync" /\ sweeps[w] >= MaxSweeps

\* C3: once kill() has set the kill signal, every worker process, in
\* whatever state it is, shuts down its environment and exits (stated for
\* the runs with a checkpoint root configured).
C3_KillLiveness ==
    (kill_signal /\ weightsdir_given)
        ~> (\A w \in Names : Gone(w) \/ Unfollowed(w))

\* C4 as claimed: from the moment the kill signal is set, no worker appends
\* to the shared transition buffer or to the summary mailbox (the mailbox
\* can still be emptied by its consumer).
C4_NoWriteOnceKillIsSet ==
    [][kill_signal =>
          /\ stored_transitions' = stored_transitions
          /\ agent_summaries' \in {agent_summaries, <<>>}]_vars

\* C4 as amended: nothing the generator yields after kill was set reaches
\* either buffer: no such transition is in the shared transition buffer or
\* in an episode buffer, and no summary made for one is in the mailbox.
C4_NothingYieldedAfterKillIsWritten ==
    /\ \A j \in 1..Len(stored_transitions) : ~ stored_transitions[j][2].k
    /\ \A j \in 1..Len(agent_summaries) : ~ agent_summaries[j].k
    /\ \A w \in Names : \A j \in 1..Len(episode_rollout[w]) :
           ~ episode_rollout[w][j].k

\* C4 witness: kill is set, the generator of a worker has yielded a
\* transition after that, and the worker is about to test the kill signal,
\* while the buffer and the mailbox hold what was written before.
C4_Witness ==
    /\ kill_signal
    /\ stored_transitions # <<>>
    /\ agent_summaries # <<>>
    /\ \E w \in Names : pc[w] = "kill_check" /\ replay_transition[w].k

\* C5: a process that has ended after launching its environment has called
\* env.shutdown(), on every exit path (stated for the runs with a checkpoint
\* root configured).
C5_ShutdownOnEveryExit ==
    weightsdir_given =>
        \A w \in Names :
            (pc[w] = "done" /\ env[w] # "none") => env[w] = "shutdown"

\* C6: a throttle test lets the worker pass iff it is an eval worker, or no
\* target is configured, or the global step is at most zero, or the current
\* replay ratio is strictly above the target; a worker that does not pass
\* has not appended the pending transition and sleeps before the next test.
C6_ThrottleGateDecision ==
    \A w \in Names :
        LET r == gate_read[w]
            open == \/ p_args[w][2]
                    \/ target_replay_ratio = NoTarget
                    \/ r.made /\ r.step <= 0
                    \/ r.made /\ r.current > target_replay_ratio
        IN /\ pc[w] = "summary" => open
           /\ pc[w] = "throttle_sleep" =>
                 /\ ~ open
                 /\ r.made
                 /\ Len(episode_rollout[w]) = Len(produced[w]) - 1

\* C6 witness: a training worker sleeps after a test that read a positive
\* step and a current replay ratio equal to the target.
C6_Witness ==
    \E w \in Names :
        /\ pc[w] = "throttle_sleep"
        /\ gate_read[w].step > 0
        /\ gate_read[w].current = target_replay_ratio

\* C7: a registered identity always runs, restarts included, the loop of the
\* role it was spun up in.
C7_RestartKeepsRole ==
    \A n \in DOMAIN p_args :
        run_fn[n] = (IF p_args[n][2] THEN "eval" ELSE "train")

\* The largest id among the directories of the checkpoint root.
Newest == SetMax({ParseInt(name) : name \in weightsdir})

\* C8: a _load_save call that finds directories sets the last-loaded id to
\* the largest id m; if the last-loaded id differed from m it returns with
\* the weights of m loaded, and if it was m already (as right after such a
\* call, the directories unchanged) it returns without loading anything.
C8_SyncLoadsNewestOnce ==
    [][\A w \in Names :
          /\ (pc[w] = "ls_locked" /\ pc'[w] # "ls_locked" /\ weightsdir # {}) =>
                /\ pc'[w] # "ls_sleep"
                /\ previous_loaded_weight_folder'[w] = Newest
                /\ pc'[w] \in {"new_episode", "eval_runs"} =>
                      IF previous_loaded_weight_folder[w] # Newest
                      THEN weights'[w] = Newest /\ last_sync'[w] = "loaded"
                      ELSE weights'[w] = weights[w] /\ last_sync'[w] = "kept"
          /\ (pc[w] = "ls_retry" /\ pc'[w] \in {"new_episode", "eval_runs"}) =>
                /\ previous_loaded_weight_folder'[w] = previous_loaded_weight_folder[w]
                /\ weights'[w] = previous_loaded_weight_folder[w]
                /\ last_sync'[w] = "loaded"]_vars

\* C8 witness: a process that holds the weights of the newest of several
\* checkpoints has called _load_save again, and the call has returned
\* without loading.
C8_Witness ==
    \E w \in Names :
        /\ last_sync[w] = "kept"
        /\ Cardinality(weightsdir) >= 2
        /\ weights[w] = Newest
        /\ previous_loaded_weight_folder[w] = Newest

\* C9: the last-loaded id of a process never decreases, whatever value the
\* caller supplied for it.
C9_LastLoadedNeverDecreases ==
    [][\A w \in Names :
          (~ Gone(w) /\ pc'[w] \notin {"start", "done"}) =>
              previous_loaded_weight_folder'[w] >= previous_loaded_weight_folder[w]]_vars

\* C10: _unevaluated_weights returns only when two or more checkpoint
\* directories exist, and then returns False iff the last-loaded id equals
\* the largest id it has listed and that id equals training_iterations.
C10_UnevaluatedDecision ==
    [][\A w \in Names :
          (pc[w] = "uneval_compare" /\ pc'[w] # "uneval_compare") =>
              /\ Cardinality(weightsdir) >= 2
              /\ Len(weight_folders[w]) >= 2
              /\ IF /\ previous_loaded_weight_folder[w] = SetMax(Range(weight_folders[w]))
                    /\ SetMax(Range(weight_folders[w])) = training_iterations
                 THEN pc'[w] = "done" /\ exit'[w] = "normal"
                 ELSE pc'[w] = "eval_sync"]_vars

\* C10 witness: _unevaluated_weights has returned True to a process whose
\* last-loaded id is the largest id there is, that id not being
\* training_iterations.
C10_Witness ==
    \E w \in Names :
        /\ pc[w] = "eval_sync"
        /\ weightsdir # {}
        /\ previous_loaded_weight_folder[w] = Newest
        /\ Newest # training_iterations

\* The processes that hold, or wait for, each lock.
HoldsWrite(w) == pc[w] \in {"summary_locked", "flush_locked"}
HoldsCheckpoint(w) == pc[w] \in {"ls_locked", "ls_retry"}
WaitsForLock(w) == pc[w] \in {"summary", "flush", "ls_lock"}
Sleeps(w) == pc[w] \in {"throttle_sleep", "ls_sleep", "uneval_sleep"}

\* C11: a worker looks at the summary mailbox and appends to it only while
\* it holds the write lock; if the mailbox is not empty it leaves it as it
\* is, and if it is empty (at the start, or after the consumer has drained
\* it) the mailbox becomes the records of that one act_summaries() call.  So
\* with several workers the mailbox always holds the records of one call of
\* one worker, and nothing but the drain takes records away.
C11_SingleSlotMailbox ==
    /\ [](\A j \in 1..Len(agent_summaries) :
             /\ agent_summaries[j].who = agent_summaries[1].who
             /\ agent_summaries[j].n = j)
    /\ [][/\ agent_summaries' # agent_summaries =>
                \/ agent_summaries' = <<>>
                \/ \E w \in Names :
                      /\ pc[w] = "summary_locked" /\ write_lock = w
                      /\ pc'[w] = "next"
                      /\ agent_summaries = <<>>
                      /\ agent_summaries' \in ActSummaries(w)
          /\ \A w \in Names :
                (pc[w] = "summary_locked" /\ pc'[w] = "next") =>
                    /\ write_lock = w
                    /\ agent_summaries # <<>> => agent_summaries' = agent_summaries
                    /\ agent_summaries = <<>> => agent_summaries' \in ActSummaries(w)]_vars

\* C11 witness: a worker holds the write lock for a summary event while the
\* mailbox still holds the records of an event of another worker.
C11_Witness ==
    \E w \in Names :
        /\ pc[w] = "summary_locked"
        /\ agent_summaries # <<>>
        /\ agent_summaries[1].who # w

\* C12: in the shared transition buffer the entries of one worker stand in
\* the order of generation (by episode, then by index in the episode), the
\* entries of one episode stand next to each other with no entry of another
\* worker or episode between them, and a step of the workers only appends:
\* what is in the buffer stays where it is.
C12_OrderedContiguousAppendOnly ==
    /\ [](\A i \in 1..Len(stored_transitions) :
          \A j \in 1..Len(stored_transitions) :
             (i < j /\ stored_transitions[i][1] = stored_transitions[j][1]) =>
                 LET a == stored_transitions[i][2]
                     b == stored_transitions[j][2]
                 IN /\ a.e < b.e \/ (a.e = b.e /\ a.i < b.i)
                    /\ a.e = b.e =>
                          \A m \in i..j :
                             /\ stored_transitions[m][1] = stored_transitions[i][1]
                             /\ stored_transitions[m][2].e = a.e)
    /\ [][/\ Len(stored_transitions') >= Len(stored_transitions)
          /\ SubSeq(stored_transitions', 1, Len(stored_transitions))
                 = stored_transitions]_vars

\* C12 witness: the buffer holds an episode of two entries of one worker and
\* entries of another worker, while the first worker flushes again.
C12_Witness ==
    \E w \in Names : \E v \in Names \ {w} :
        /\ pc[w] = "flush_locked"
        /\ Len(episode_rollout[w]) = 2
        /\ \E j \in 1..Len(stored_transitions) :
              stored_transitions[j][1] = w /\ stored_transitions[j][2].i = 2
        /\ \E j \in 1..Len(stored_transitions) : stored_transitions[j][1] = v

\* The sum of f over the set S.
RECURSIVE SumOver(_, _)
SumOver(f, S) ==
    IF S = {} THEN 0
    ELSE LET x == CHOOSE y \in S : TRUE IN f[x] + SumOver(f, S \ {x})

\* The number of episodes of identity w that have ended and whose count is
\* due: those started, less those cut short by kill or a fatal error, less
\* the one at hand (an episode is at hand until line 256 is done).
Ended(w) ==
    epno[w] - Cardinality(cut[w])
        - (IF InEpisode(w) \/ pc[w] \in {"count_read", "count_write"}
           THEN 1 ELSE 0)

\* C13: with evaluation processes only, the shared counter of evaluation
\* episodes equals the number of evaluation episodes that have ended, by
\* generator exhaustion or by the soft signal, over all processes: no
\* increment is skipped and none is lost.
C13_CounterCountsEndedEpisodes ==
    (\A n \in DOMAIN p_args : p_args[n][2]) =>
        num_eval_episodes_signal = SumOver([n \in Names |-> Ended(n)], Names)

\* C14 as claimed: for a runner constructed with the default last-loaded id,
\* in every state the last-loaded id of a process names the checkpoint whose
\* weights its policy copy holds (the id is moved only by a load that
\* succeeded).
C14_IdAlwaysNamesLoadedWeights ==
    initial_folder = NoFolder =>
        \A w \in Names : previous_loaded_weight_folder[w] = weights[w]

\* C14 as amended: the id is set before the load is tried.  A first
\* not-found is followed, the checkpoint lock still held, by exactly one
\* more attempt: it loads the weights the id names, or the error leaves the
\* process.  So in every state in which a process is not between the two
\* attempts its id is the value given at construction, nothing being loaded
\* yet, or names the weights the policy copy holds.
C14_RetryOnceThenIdNamesWeights ==
    /\ [](\A w \in Names :
             IF pc[w] = "ls_retry"
             THEN save_load_lock = w
             ELSE \/ previous_loaded_weight_folder[w] = weights[w]
                  \/ /\ weights[w] = NoFolder
                     /\ previous_loaded_weight_folder[w] = initial_folder)
    /\ [][\A w \in Names :
             (pc[w] = "ls_retry" /\ pc'[w] # "ls_retry") =>
                 \/ /\ pc'[w] \in {"new_episode", "eval_runs"}
                    /\ previous_loaded_weight_folder'[w] = previous_loaded_weight_folder[w]
                    /\ weights'[w] = previous_loaded_weight_folder[w]
                    /\ save_load_lock' = Free
                 \/ /\ pc'[w] = "done"
                    /\ exit'[w] = "error"
                    /\ save_load_lock' = Free]_vars

\* C14 witness: a process that holds the weights of an older checkpoint has
\* set its id to a newer one, the first load of it has failed, and the
\* retry is pending.
C14_Witness ==
    \E w \in Names :
        /\ pc[w] = "ls_retry"
        /\ weights[w] # NoFolder
        /\ previous_loaded_weight_folder[w] > weights[w]

\* The step in which the process of identity w writes the report flag
\* (line 257).
SetsReport(w) == pc[w] = "eval_runs" /\ pc'[w] = "uneval_list"

\* C15: the report flag is written only by an evaluation process that has
\* run num_eval_runs x eval_episodes episodes to their end since its last
\* _load_save, every one of them begun under the last-loaded id that call
\* left; a process that leaves a sweep by kill or by a fatal error does not
\* write the flag.
C15_ReportOnlyAfterFullSweep ==
    [][/\ eval_report_signal' # eval_report_signal =>
             \E w \in Names : SetsReport(w)
       /\ \A w \in Names :
             /\ SetsReport(w) =>
                   /\ eval_report_signal'
                   /\ run_fn[w] = "eval"
                   /\ Len(swept[w]) = num_eval_runs * eval_episodes
                   /\ \A j \in 1..Len(swept[w]) :
                         swept[w][j] = previous_loaded_weight_folder[w]
                   /\ weights[w] = previous_loaded_weight_folder[w]
             /\ (pc'[w] = "done" /\ pc[w] # "done" /\ exit'[w] \in {"kill", "error"}) =>
                   eval_report_signal' = eval_report_signal]_vars

\* C15 witness: a process has written the flag after a full sweep under one
\* checkpoint and is back at the barrier.
C15_Witness ==
    \E w \in Names :
        /\ eval_report_signal
        /\ pc[w] = "uneval_list"
        /\ Len(swept[w]) = num_eval_runs * eval_episodes
        /\ \A j \in 1..Len(swept[w]) : swept[w][j] = training_iterations

\* C16: a sleeping process holds neither lock, except for the one-second
\* pause between the two load attempts, which is inside the checkpoint lock;
\* the checkpoint lock is held from the listing to the end of the load
\* attempts and by nobody who waits for checkpoints to appear; no process
\* holds both locks, or waits for one lock while holding the other; so
\* whenever a process waits for a lock, the lock is free or its holder can
\* take its next step.
C16_LockAndSleepDiscipline ==
    /\ write_lock # Free => write_lock \in Names /\ HoldsWrite(write_lock)
    /\ save_load_lock # Free =>
           save_load_lock \in Names /\ HoldsCheckpoint(save_load_lock)
    /\ \A w \in Names :
          /\ HoldsWrite(w) => write_lock = w
          /\ HoldsCheckpoint(w) => save_load_lock = w
          /\ Sleeps(w) => write_lock # w /\ save_load_lock # w
          /\ ~ (write_lock = w /\ save_load_lock = w)
          /\ WaitsForLock(w) => write_lock # w /\ save_load_lock # w

\* C16 witness: one process is between its two load attempts, the
\* checkpoint lock held, while another process holds the write lock.
C16_Witness ==
    \E w \in Names : \E v \in Names \ {w} :
        /\ save_load_lock = w
        /\ write_lock = v
        /\ pc[w] = "ls_retry"

\* C17: a process running _run_train has a _load_save call return before
\* every episode, starts at most train_episodes episodes and flushes at most
\* once in each; it ends by the end of its loop only after exactly
\* train_episodes episodes, its environment shut down; and, checkpoints
\* being published and the throttle test passing in the end, it does end
\* (by the end of its loop, unless kill, a fatal error or a load that failed
\* twice ends it before).
C17_TrainLoopTerminates ==
    /\ [](\A w \in Names :
             run_fn[w] = "train" =>
                 /\ ep[w] <= train_episodes
                 /\ epno[w] <= train_episodes
                 /\ (pc[w] = "done" /\ exit[w] = "normal") =>
                        epno[w] = train_episodes /\ env[w] = "shutdown")
    /\ [][\A w \in Names :
             run_fn[w] = "train" =>
                 /\ (pc[w] = "new_episode" /\ pc'[w] = "next" /\ weightsdir_given) =>
                        last_sync[w] \in {"loaded", "kept"}
                 /\ (pc[w] = "flush_locked" /\ pc'[w] # "flush_locked") =>
                        /\ ep'[w] = ep[w] + 1
                        /\ pc'[w] = "train_for"
                 /\ (pc[w] = "train_for" /\ pc'[w] = "done") =>
                        /\ exit'[w] = "normal"
                        /\ env'[w] = "shutdown"
                        /\ epno[w] = train_episodes]_vars
    /\ \A w \in Names :
          (pc[w] = "start" /\ run_fn[w] = "train") ~> (pc[w] = "done")

\* C17 witness: a training process has ended by the end of its loop, after
\* train_episodes episodes of which it has flushed transitions.
C17_Witness ==
    \E w \in Names :
        /\ run_fn[w] = "train"
        /\ pc[w] = "done"
        /\ exit[w] = "normal"
        /\ epno[w] = train_episodes
        /\ \E j \in 1..Len(stored_transitions) :
              stored_transitions[j][1] = w
              /\ stored_transitions[j][2].e = train_episodes

\* The step in which the soft episode-complete signal ends the episode of
\* the process of identity w: from the generator straight to the loop head.
SoftStep(w) == pc[w] = "next" /\ pc'[w] \in {"train_for", "eval_eps"}

\* C18: the soft signal ends the episode and nothing else: the environment
\* stays launched, the process does not end and records no error, and it
\* stands at the head of its episode loop with the loop variable advanced;
\* from there it starts the next episode or, after the last one, goes on to
\* the normal end of the loop.
C18_SoftSignalResumesLoop ==
    [][\A w \in Names :
          /\ SoftStep(w) =>
                /\ env[w] = "launched" /\ env'[w] = "launched"
                /\ exit'[w] = "none"
                /\ ep'[w] = ep[w] + 1
                /\ n_eval'[w] = n_eval[w]
                /\ pc'[w] = (IF run_fn[w] = "train" THEN "train_for" ELSE "eval_eps")
          /\ (pc[w] = "train_for" /\ pc'[w] # "train_for") =>
                IF ep[w] < train_episodes
                THEN pc'[w] = "load_save" /\ env'[w] = "launched"
                ELSE pc'[w] = "done" /\ exit'[w] = "normal" /\ env'[w] = "shutdown"
          /\ (pc[w] = "eval_eps" /\ pc'[w] # "eval_eps") =>
                /\ env'[w] = "launched"
                /\ IF ep[w] < eval_episodes
                   THEN pc'[w] = "new_episode"
                   ELSE pc'[w] = "eval_runs"]_vars

\* C18 witness: a training process stands at the head of its loop after an
\* episode in which the generator yielded, the soft signal having ended it
\* (nothing of the episode is in the shared buffer), its environment
\* launched.
C18_Witness ==
    \E w \in Names :
        /\ pc[w] = "train_for"
        /\ env[w] = "launched"
        /\ ep[w] >= 1
        /\ episode_rollout[w] # <<>>
        /\ \A j \in 1..Len(stored_transitions) :
              ~ (stored_transitions[j][1] = w /\ stored_transitions[j][2].e = epno[w])

\* The step in which the process of identity w, running _run_eval, leaves
\* its outer loop because _unevaluated_weights returned False.
EvalLoopEnds(w) ==
    pc[w] = "uneval_compare" /\ pc'[w] = "done" /\ exit'[w] = "normal"

\* What holds of a process that leaves its outer loop: its last-loaded id is
\* training_iterations and is the newest id of the listing it compared with,
\* it holds those weights, it has run a whole sweep under that id and the
\* report flag is set.
EvaluatedFinal(w) ==
    /\ previous_loaded_weight_folder[w] = training_iterations
    /\ Last(weight_folders[w]) = training_iterations
    /\ weights[w] = training_iterations
    /\ Len(swept[w]) = num_eval_runs * eval_episodes
    /\ \A j \in 1..Len(swept[w]) : swept[w][j] = training_iterations
    /\ eval_report_signal

C20_KillSeenWhileThrottled ==
    /\ [][\A w \in Names :
             /\ (pc[w] = "throttle_sleep" /\ pc'[w] # "throttle_sleep") =>
                   /\ pc'[w] = "kill_check"
                   /\ episode_rollout'[w] = episode_rollout[w]
                   /\ stored_transitions' = stored_transitions
                   /\ agent_summaries' = agent_summaries
             /\ (pc[w] = "kill_check" /\ pc'[w] # "kill_check" /\ kill_signal) =>
                   /\ pc'[w] = "done"
                   /\ exit'[w] = "kill"
                   /\ env'[w] = "shutdown"
                   /\ stored_transitions' = stored_transitions
                   /\ agent_summaries' = agent_summaries]_vars
    /\ \A w \in Names :
          (pc[w] = "throttle_sleep" /\ kill_signal)
              ~> (pc[w] = "done" /\ exit[w] = "kill" /\ env[w] = "shutdown")

\* C20 witness: kill is set while a training worker sleeps in the throttle
\* wait, its last test having read a positive step and a ratio not above
\* the target, with a transition pending and a partial episode buffered.
C20_Witness ==
    \E w \in Names :
        /\ kill_signal
        /\ pc[w] = "throttle_sleep"
        /\ gate_read[w].step > 0
        /\ gate_read[w].current <= target_replay_ratio
        /\ Len(episode_rollout[w]) >= 1
        /\ Len(produced[w]) = Len(episode_rollout[w]) + 1

====
